---- MODULE Spec2Model ----
(***************************************************************************)
(* Model of the marketing-agent demo: the Bedrock agent client             *)
(* (src/src/services/aws_agent_client.py), the response formatter          *)
(* (src/src/utils/helpers.py) and the session orchestrator (src/app.py).   *)
(*                                                                         *)
(* Python strings are sequences of one-character strings, so that the      *)
(* substring tests, regular expressions, split/strip/join of the source    *)
(* are computed rather than assumed.  Two characters outside ASCII are     *)
(* written with stand-ins: "=" is U+2550 (box drawing double horizontal)   *)
(* and "!" is U+274C (cross mark).  Python's None is the empty sequence    *)
(* and a present optional value is a one-element sequence.                 *)
(***************************************************************************)
EXTENDS Integers, Sequences, FiniteSets, TLC

VARIABLES
    messages,          \* st.session_state.messages
    agent_client,      \* st.session_state.agent_client
    current_response,  \* st.session_state.current_response
    session_id,        \* st.session_state.session_id
    pc,                \* position of the script run / of send_message
    caller,            \* who called send_message: "app" or "direct"
    message,           \* send_message: parameter message
    sid,               \* send_message: local session_id (after defaulting)
    max_retries,       \* send_message: parameter max_retries
    attempt,           \* send_message: loop variable
    last_error,        \* send_message: local last_error
    result,            \* send_message: the returned dictionary
    invocations,       \* the invoke_agent requests issued by the current call
    sleeps,            \* the time.sleep arguments of the current call
    exc,               \* the exception in flight, if any
    requests,          \* session identifiers of the invoke_agent requests issued for
                       \* user submissions since the last reset
    last_event,        \* the widget event main handled last: "submit" or "new_session"
    text,              \* formatter input
    cleaned,           \* clean_response_text(text)
    recleaned,         \* clean_response_text(cleaned)
    table,             \* extract_table_from_response(text)
    turn,              \* the assistant turn main builds from a response
    fpc,               \* position of the run of a pure function
    trace,             \* extract_sql_query_from_trace: argument trace_data
    sql,               \* extract_sql_query_from_trace: how the call ended
    events,            \* _process_streaming_response: the event stream
    processed,         \* _process_streaming_response: the returned dictionary
    guidance,          \* the st.error message main emitted for the last prompt
    connect_args,      \* st.session_state.agent_id, .agent_alias_id, .region, ...
    environ,           \* the config module, if importable, and os.environ
    next_stamp,        \* time.time() of the next add_message_to_history
    import_ok          \* what the last import_chat_history returned

vars == <<messages, agent_client, current_response, session_id, pc, caller,
          message, sid, max_retries, attempt, last_error, result, invocations,
          sleeps, exc, requests, last_event, text, cleaned, recleaned, table, turn,
          fpc, trace, sql, events, processed, guidance, connect_args, environ,
          next_stamp, import_ok>>

appVars == <<messages, agent_client, current_response, session_id, requests, last_event,
            guidance, connect_args>>
callVars == <<caller, message, sid, max_retries, attempt, last_error, result,
              invocations, sleeps, exc>>
sqlVars == <<trace, sql>>
streamVars == <<events, processed>>
fmtVars == <<text, cleaned, recleaned, table, turn, fpc, sqlVars, streamVars>>
chatVars == <<next_stamp, import_ok>>
otherVars == <<fmtVars, chatVars, environ>>

None == <<>>
Some(x) == <<x>>

(***************************************************************************)
(* Python str operations                                                   *)
(***************************************************************************)
Chars(s) == [i \in 1..Len(s) |-> SubSeq(s, i, i)]

NL == "\n"

\* str.isspace for the characters of the model's alphabets
IsSpace(c) == c \in {" ", NL, "\t"}

UpperCase == Chars("ABCDEFGHIJKLMNOPQRSTUVWXYZ")
LowerCase == Chars("abcdefghijklmnopqrstuvwxyz")

LowerChar(c) ==
    IF \E i \in 1..Len(UpperCase) : UpperCase[i] = c
    THEN LowerCase[CHOOSE i \in 1..Len(UpperCase) : UpperCase[i] = c]
    ELSE c

\* str.lower()
Lower(s) == [i \in 1..Len(s) |-> LowerChar(s[i])]

\* sub in s
Contains(s, sub) ==
    \E i \in 0..(Len(s) - Len(sub)) : SubSeq(s, i + 1, i + Len(sub)) = sub

\* s.startswith(p), s.endswith(p)
StartsWith(s, p) == Len(s) >= Len(p) /\ SubSeq(s, 1, Len(p)) = p
EndsWith(s, p) == Len(s) >= Len(p) /\ SubSeq(s, Len(s) - Len(p) + 1, Len(s)) = p

\* s.strip()
Strip(s) ==
    IF \A i \in 1..Len(s) : IsSpace(s[i]) THEN <<>>
    ELSE LET lo == CHOOSE i \in 1..Len(s) :
                       ~IsSpace(s[i]) /\ \A j \in 1..(i - 1) : IsSpace(s[j])
             hi == CHOOSE i \in 1..Len(s) :
                       ~IsSpace(s[i]) /\ \A j \in (i + 1)..Len(s) : IsSpace(s[j])
         IN  SubSeq(s, lo, hi)

\* s.split(c) for a one-character separator c: always at least one piece
RECURSIVE Split(_, _)
Split(s, c) ==
    IF \A i \in 1..Len(s) : s[i] # c THEN <<s>>
    ELSE LET k == CHOOSE i \in 1..Len(s) : s[i] = c /\ \A j \in 1..(i - 1) : s[j] # c
         IN  <<SubSeq(s, 1, k - 1)>> \o Split(SubSeq(s, k + 1, Len(s)), c)

\* c.join(pieces)
RECURSIVE Join(_, _)
Join(pieces, c) ==
    IF pieces = <<>> THEN <<>>
    ELSE IF Len(pieces) = 1 THEN pieces[1]
    ELSE pieces[1] \o <<c>> \o Join(Tail(pieces), c)

\* len([c for c in s if c == ch])
CountChar(s, ch) == Cardinality({i \in 1..Len(s) : s[i] = ch})

\* str(n) for a non-negative integer n
RECURSIVE IntStr(_)
IntStr(n) ==
    IF n < 10 THEN <<Chars("0123456789")[n + 1]>>
    ELSE IntStr(n \div 10) \o <<Chars("0123456789")[(n % 10) + 1]>>

(***************************************************************************)
(* helpers.py: clean_response_text                                         *)
(***************************************************************************)
NoResponse == Chars("No response received.")

\* the end of the run of whitespace that starts at s[1]
WsRunEnd(s) ==
    IF \A i \in 1..Len(s) : IsSpace(s[i]) THEN Len(s)
    ELSE (CHOOSE i \in 1..Len(s) : ~IsSpace(s[i]) /\ \A j \in 1..(i - 1) : IsSpace(s[j])) - 1

\* re.sub(r'\n\s*\n\s*\n', '\n\n', s): a match starts at a newline and, the
\* quantifiers being greedy, ends at the last newline of the whitespace run
\* that follows, which must hold three newlines or more
RECURSIVE SubBlankLines(_)
SubBlankLines(s) ==
    IF s = <<>> THEN <<>>
    ELSE LET e == WsRunEnd(s)
             nls == {i \in 1..e : s[i] = NL}
         IN  IF s[1] = NL /\ Cardinality(nls) >= 3
             THEN LET last == CHOOSE i \in nls : \A j \in nls : j <= i
                  IN  <<NL, NL>> \o SubBlankLines(SubSeq(s, last + 1, Len(s)))
             ELSE <<s[1]>> \o SubBlankLines(Tail(s))

\* re.match(r'^\s*\|[\s\-\|]*\|\s*$', line)
IsSeparatorLine(line) ==
    \E i, j \in 1..Len(line) :
        /\ i < j
        /\ line[i] = "|"
        /\ line[j] = "|"
        /\ \A k \in 1..(i - 1) : IsSpace(line[k])
        /\ \A k \in (i + 1)..(j - 1) : IsSpace(line[k]) \/ line[k] \in {"-", "|"}
        /\ \A k \in (j + 1)..Len(line) : IsSpace(line[k])

\* re.sub(r'\s+', '', line)
RemoveSpace(line) == SelectSeq(line, LAMBDA c : ~IsSpace(c))

\* the body of the loop over the lines
CleanLine(line) ==
    IF IsSeparatorLine(line)
    THEN LET l1 == RemoveSpace(line)
             l2 == IF ~StartsWith(l1, <<"|">>) THEN <<"|">> \o l1 ELSE l1
             l3 == IF ~EndsWith(l2, <<"|">>) THEN l2 \o <<"|">> ELSE l2
         IN  l3
    ELSE line

clean_response_text(t) ==
    IF t = <<>> THEN NoResponse
    ELSE LET lines == Split(SubBlankLines(t), NL)
             cleaned_lines == [i \in 1..Len(lines) |-> CleanLine(lines[i])]
         IN  Strip(Join(cleaned_lines, NL))

(***************************************************************************)
(* helpers.py: parse_table_row, extract_table_from_response                *)
(***************************************************************************)
parse_table_row(line) ==
    LET cells == Split(line, "|")
        c1 == IF cells # <<>> /\ Strip(cells[1]) = <<>> THEN Tail(cells) ELSE cells
        c2 == IF c1 # <<>> /\ Strip(c1[Len(c1)]) = <<>>
              THEN SubSeq(c1, 1, Len(c1) - 1) ELSE c1
    IN  [i \in 1..Len(c2) |-> Strip(c2[i])]

Dashes == Chars("---")
BoxBars == Chars("===")

\* CollectTableLines without the skip of the separator lines
RECURSIVE CollectTableLines_KeepSeparators(_, _, _)
CollectTableLines_KeepSeparators(lines, in_table, table_lines) ==
    IF lines = <<>> THEN table_lines
    ELSE LET line == Strip(Head(lines)) IN
         IF Contains(line, <<"|">>)
         THEN IF in_table \/ CountChar(line, "|") >= 2
              THEN CollectTableLines_KeepSeparators(Tail(lines), TRUE, Append(table_lines, line))
              ELSE CollectTableLines_KeepSeparators(Tail(lines), in_table, table_lines)
         ELSE IF in_table /\ line = <<>>
              THEN table_lines
              ELSE CollectTableLines_KeepSeparators(Tail(lines), in_table, table_lines)

\* the loop over the lines: the table lines it has collected when it ends
RECURSIVE CollectTableLines(_, _, _)
CollectTableLines(lines, in_table, table_lines) ==
    IF lines = <<>> THEN table_lines
    ELSE LET line == Strip(Head(lines)) IN
         IF Contains(line, <<"|">>)
         THEN IF Contains(line, Dashes) \/ Contains(line, BoxBars)
              THEN CollectTableLines(Tail(lines), TRUE, table_lines)
              ELSE IF in_table \/ CountChar(line, "|") >= 2
                   THEN CollectTableLines(Tail(lines), TRUE, Append(table_lines, line))
                   ELSE CollectTableLines(Tail(lines), in_table, table_lines)
         ELSE IF in_table /\ line = <<>>
              THEN table_lines
              ELSE CollectTableLines(Tail(lines), in_table, table_lines)

NoTable == [has_table |-> FALSE, table_data |-> None]

\* KeepRows without the test len(row) == len(headers)
RECURSIVE KeepRows_All(_, _, _)
KeepRows_All(lines, headers, rows) ==
    IF lines = <<>> THEN rows
    ELSE KeepRows_All(Tail(lines), headers, Append(rows, parse_table_row(Head(lines))))

\* rows.append(row) for the table lines after the first
RECURSIVE KeepRows(_, _, _)
KeepRows(lines, headers, rows) ==
    IF lines = <<>> THEN rows
    ELSE LET row == parse_table_row(Head(lines)) IN
         KeepRows(Tail(lines), headers,
                  IF Len(row) = Len(headers) THEN Append(rows, row) ELSE rows)

\* extract_table_from_response with the header counted in row_count
extract_table_CountsHeader(t) ==
    LET table_lines == CollectTableLines(Split(t, NL), FALSE, <<>>) IN
    IF Len(table_lines) < 2 THEN NoTable
    ELSE LET headers == parse_table_row(table_lines[1])
             rows == KeepRows(Tail(table_lines), headers, <<headers>>)
         IN  IF Len(rows) > 1
             THEN [has_table |-> TRUE,
                   table_data |-> Some([headers |-> headers, rows |-> rows,
                                        row_count |-> Len(rows)])]
             ELSE NoTable

\* the function; its except clause is never entered for a string argument
extract_table_from_response(t) ==
    LET table_lines == CollectTableLines(Split(t, NL), FALSE, <<>>) IN
    IF Len(table_lines) < 2 THEN NoTable
    ELSE LET headers == parse_table_row(table_lines[1])
             rows == KeepRows(Tail(table_lines), headers, <<headers>>)
         IN  IF Len(rows) > 1
             THEN [has_table |-> TRUE,
                   table_data |-> Some([headers |-> headers, rows |-> rows,
                                        row_count |-> Len(rows) - 1])]
             ELSE NoTable

(***************************************************************************)
(* Bounds and inputs                                                       *)
(***************************************************************************)
NumIds == 2        \* distinct values of uuid.uuid4().hex[:8] the model draws
NumTimes == 2      \* distinct values of int(time.time()) the model draws
MaxN == 3          \* largest max_retries a direct caller passes
MaxTurns == 4      \* a submission is taken while its two turns fit in this many
MaxStamp == 52     \* the last timestamp add_message_to_history gives

DEFAULT_MAX_RETRIES == 2
MAX_CHAT_HISTORY == 50

\* f"streamlit-chat-{uuid.uuid4().hex[:8]}" and f"streamlit-demo-{int(time.time())}"
ChatId(h) == <<"streamlit-chat", h>>
DemoId(t) == <<"streamlit-demo", t>>
ChatIds == {ChatId(h) : h \in 1..NumIds}

Prompts == {Chars("q1"), Chars("q2")}

\* str(e) of the exceptions the model raises
ErrReadTimedOut == Chars("Read timed out")
ErrTimeout == Chars("Endpoint Timeout")
ErrConnection == Chars("Connection reset by peer")
ErrAccessDenied == Chars("AccessDenied")
ErrDeniedConnection == Chars("AccessDenied: Connection refused")
ErrorTexts == {ErrReadTimedOut, ErrTimeout, ErrConnection, ErrAccessDenied}

\* the texts a successful invocation streams back
PlainAnswer == Chars("ok")
TableAnswer == Chars("|a|b|\n| - | - |\n|1|2|")
ResponseTexts == {PlainAnswer, TableAnswer}

(***************************************************************************)
(* aws_agent_client.py: BedrockAgentClient._test_connection                *)
(***************************************************************************)
\* "UnauthorizedOperation" in str(e) or "AccessDenied" in str(e)
IsCredentialError(error_str) ==
    Contains(error_str, Chars("UnauthorizedOperation")) \/ Contains(error_str, Chars("AccessDenied"))

\* "ResourceNotFound" in str(e)
IsNotFoundError(error_str) == Contains(error_str, Chars("ResourceNotFound"))

(***************************************************************************)
(* aws_agent_client.py: BedrockAgentClient.send_message                    *)
(***************************************************************************)
RetryKeywords ==
    {Chars("timeout"), Chars("connection"), Chars("read timed out"), Chars("connection pool")}

\* any(keyword in error_str.lower() for keyword in [...])
HasRetryKeyword(error_str) == \E keyword \in RetryKeywords : Contains(Lower(error_str), keyword)

\* ShouldRetry with the last retry dropped (attempt + 1 < max_retries)
ShouldRetry_OffByOne(att, maxr, error_str) == att + 1 < maxr /\ HasRetryKeyword(error_str)

\* ShouldRetry without the keyword test: every error is retried
ShouldRetry_AnyError(att, maxr, error_str) == att < maxr

\* ShouldRetry without the test attempt < max_retries
ShouldRetry_Unbounded(att, maxr, error_str) == HasRetryKeyword(error_str)

\* the condition of the if in the except clause
ShouldRetry(att, maxr, error_str) == att < maxr /\ HasRetryKeyword(error_str)

\* WaitTime growing by one second a retry
WaitTime_Linear(att) == att + 1

\* wait_time = (2 ** attempt) * 1
WaitTime(att) == (2 ^ att) * 1

\* if not session_id: session_id = f"streamlit-demo-{int(time.time())}"
DefaultSessionId(session_id_arg, t) ==
    IF session_id_arg = None THEN DemoId(t) ELSE session_id_arg[1]

\* an except clause that lets the errors it would not retry through
Catches_RetryableOnly(e) == HasRetryKeyword(e)

\* except Exception: every error invoke_agent raises is an Exception
Catches(e) == TRUE

\* str(last_error)
StrOfError(err) == IF err = None THEN Chars("None") ELSE err[1]

(***************************************************************************)
(* aws_agent_client.py: BedrockAgentClient._process_streaming_response     *)
(*                                                                         *)
(* An event is a dictionary: a function from the keys it holds.  The       *)
(* bytes of a chunk either decode to a text or make decode('utf-8')        *)
(* raise.  The timestamps of the chunks are left out.                      *)
(***************************************************************************)
Decoded(t) == [decodes |-> TRUE, text |-> t]
Undecodable == [decodes |-> FALSE]

\* str(e) of the UnicodeDecodeError
DecodeError == Chars("'utf-8' codec can't decode byte 0xff in position 0: invalid start byte")

ErrorProcessing == Chars("Error processing response: ")

\* what is returned after the try statement
StreamResult(full_text, chunks, trace_data) ==
    [text |-> full_text, chunks |-> chunks, citations |-> <<>>, trace_data |-> trace_data]

\* ConsumeEvents with the returnControl branch left out
RECURSIVE ConsumeEvents_NoReturnControl(_, _, _, _)
ConsumeEvents_NoReturnControl(event_stream, full_text, chunks, trace_data) ==
    IF event_stream = <<>> THEN StreamResult(full_text, chunks, trace_data)
    ELSE LET event == Head(event_stream)
             rest == Tail(event_stream)
         IN  IF "chunk" \in DOMAIN event
             THEN IF "bytes" \in DOMAIN event.chunk
                  THEN IF event.chunk.bytes.decodes
                       THEN ConsumeEvents_NoReturnControl(rest,
                                full_text \o event.chunk.bytes.text,
                                Append(chunks, [text |-> event.chunk.bytes.text]), trace_data)
                       ELSE StreamResult(ErrorProcessing \o DecodeError, chunks, trace_data)
                  ELSE ConsumeEvents_NoReturnControl(rest, full_text, chunks, trace_data)
             ELSE IF "trace" \in DOMAIN event
                  THEN ConsumeEvents_NoReturnControl(rest, full_text, chunks,
                                                     Append(trace_data, event.trace))
                  ELSE ConsumeEvents_NoReturnControl(rest, full_text, chunks, trace_data)

\* the for loop inside the try statement, and the except clause
RECURSIVE ConsumeEvents(_, _, _, _)
ConsumeEvents(event_stream, full_text, chunks, trace_data) ==
    IF event_stream = <<>> THEN StreamResult(full_text, chunks, trace_data)
    ELSE LET event == Head(event_stream)
             rest == Tail(event_stream)
         IN  IF "chunk" \in DOMAIN event
             THEN IF "bytes" \in DOMAIN event.chunk
                  THEN IF event.chunk.bytes.decodes
                       THEN ConsumeEvents(rest, full_text \o event.chunk.bytes.text,
                                Append(chunks, [text |-> event.chunk.bytes.text]), trace_data)
                       ELSE StreamResult(ErrorProcessing \o DecodeError, chunks, trace_data)
                  ELSE ConsumeEvents(rest, full_text, chunks, trace_data)
             ELSE IF "trace" \in DOMAIN event
                  THEN ConsumeEvents(rest, full_text, chunks, Append(trace_data, event.trace))
                  ELSE IF "returnControl" \in DOMAIN event
                       THEN ConsumeEvents(rest, full_text, chunks,
                                Append(trace_data, [type |-> "return_control",
                                                    data |-> event.returnControl]))
                       ELSE ConsumeEvents(rest, full_text, chunks, trace_data)

\* response.get('completion', [])
Completion(response) ==
    IF "completion" \in DOMAIN response THEN response.completion ELSE <<>>

process_streaming_response(response) == ConsumeEvents(Completion(response), <<>>, <<>>, <<>>)

\* the events of the model
ChunkEvent(t) == [chunk |-> [bytes |-> Decoded(t)]]
BadChunkEvent == [chunk |-> [bytes |-> Undecodable]]
EmptyChunkEvent == [chunk |-> [attribution |-> "none"]]
TraceEvent(n) == [trace |-> [traceId |-> n]]
ReturnControlEvent == [returnControl |-> [invocationId |-> "inv"]]
FilesEvent == [files |-> "none"]

\* the invoke_agent answer that streams the text t in one chunk
Answer(t) == [completion |-> <<ChunkEvent(t)>>]

(***************************************************************************)
(* aws_agent_client.py: the results of send_message                        *)
(***************************************************************************)
\* SuccessResult with the loop variable as the attempt number
SuccessResult_ZeroBased(full_response, session, att) ==
    [status |-> "success",
     response_text |-> full_response.text,
     session_id |-> session,
     raw_response |-> full_response,
     metadata |-> [attempt |-> att]]

SuccessResult(full_response, session, att) ==
    [status |-> "success",
     response_text |-> full_response.text,
     session_id |-> session,
     raw_response |-> full_response,
     metadata |-> [attempt |-> att + 1]]

ErrorResult(maxr, err, session) ==
    [status |-> "error",
     error |-> Chars("Failed after ") \o IntStr(maxr + 1)
                   \o Chars(" attempts. Last error: ") \o StrOfError(err),
     session_id |-> session,
     metadata |-> [attempts |-> maxr + 1]]

NoResult == None
NoExc == None

IdleFrame ==
    /\ caller' = "none"
    /\ message' = <<>>
    /\ sid' = None
    /\ max_retries' = 0
    /\ attempt' = 0
    /\ last_error' = None
    /\ result' = NoResult
    /\ invocations' = <<>>
    /\ sleeps' = <<>>
    /\ exc' = NoExc

\* entry of send_message: the statements before the first invoke_agent
EnterSendMessage(who, msg, session_id_arg, maxr, t) ==
    /\ caller' = who
    /\ message' = msg
    /\ sid' = Some(DefaultSessionId(session_id_arg, t))
    /\ max_retries' = maxr
    /\ attempt' = 0
    /\ last_error' = None
    /\ result' = NoResult
    /\ invocations' = <<>>
    /\ sleeps' = <<>>
    /\ exc' = NoExc
    /\ pc' = "loop"

\* the request of one invoke_agent call, with what the service answered
Request(outcome) == [sessionId |-> sid[1], inputText |-> message, outcome |-> outcome]

\* for attempt in range(max_retries + 1): no iteration is left
LoopExhausted ==
    /\ pc = "loop"
    /\ ~(attempt < max_retries + 1)
    /\ result' = Some(ErrorResult(max_retries, last_error, sid[1]))
    /\ pc' = "returned"
    /\ UNCHANGED <<caller, message, sid, max_retries, attempt, last_error,
                   invocations, sleeps, exc>>
    /\ UNCHANGED appVars
    /\ UNCHANGED otherVars

\* the request of an invoke_agent call that returned response
Answered(response) ==
    [sessionId |-> sid[1], inputText |-> message, outcome |-> None, response |-> response]

\* one iteration whose invoke_agent returns response: the return in the try block
InvokeSuccess(response) ==
    /\ pc = "loop"
    /\ attempt < max_retries + 1
    /\ invocations' = Append(invocations, Answered(response))
    /\ requests' = IF caller = "app" THEN requests \cup {sid[1]} ELSE requests
    /\ result' = Some(SuccessResult(process_streaming_response(response), sid[1], attempt))
    /\ pc' = "returned"
    /\ UNCHANGED <<caller, message, sid, max_retries, attempt, last_error, sleeps, exc>>
    /\ UNCHANGED <<messages, agent_client, current_response, session_id, last_event,
                   guidance, connect_args>>
    /\ UNCHANGED otherVars

\* one iteration whose invoke_agent raises e: the except clause
InvokeFailure(e) ==
    /\ pc = "loop"
    /\ attempt < max_retries + 1
    /\ invocations' = Append(invocations, Request(Some(e)))
    /\ requests' = IF caller = "app" THEN requests \cup {sid[1]} ELSE requests
    /\ IF ~Catches(e)
       THEN /\ exc' = Some([text |-> e, origin |-> "invoke_agent"])
            /\ pc' = "raised"
            /\ UNCHANGED <<attempt, last_error, result, sleeps>>
       ELSE /\ last_error' = Some(e)
            /\ exc' = exc
            /\ IF ShouldRetry(attempt, max_retries, e)
               THEN /\ sleeps' = Append(sleeps, WaitTime(attempt))
                    /\ attempt' = attempt + 1
                    /\ result' = result
                    /\ pc' = "loop"
               ELSE /\ result' = Some(ErrorResult(max_retries, Some(e), sid[1]))
                    /\ pc' = "returned"
                    /\ UNCHANGED <<attempt, sleeps>>
    /\ UNCHANGED <<caller, message, sid, max_retries>>
    /\ UNCHANGED <<messages, agent_client, current_response, session_id, last_event,
                   guidance, connect_args>>
    /\ UNCHANGED otherVars

\* send_message called by other code than main: any arguments
DirectCall(msg, session_id_arg, maxr, t) ==
    /\ pc = "idle"
    /\ EnterSendMessage("direct", msg, session_id_arg, maxr, t)
    /\ UNCHANGED appVars
    /\ UNCHANGED otherVars

\* the direct caller takes the result, or the exception
DirectReturn ==
    /\ pc \in {"returned", "raised"}
    /\ caller = "direct"
    /\ pc' = "idle"
    /\ IdleFrame
    /\ UNCHANGED appVars
    /\ UNCHANGED otherVars

(***************************************************************************)
(* helpers.py: format_response                                             *)
(***************************************************************************)
ErrorPrefix == Chars("! Error: ")

\* format_response with the table extraction applied to the error text too
format_response_ErrorTable(response_data) ==
    IF response_data.status = "error"
    THEN LET extracted == extract_table_from_response(response_data.error)
         IN  [text |-> ErrorPrefix \o response_data.error,
              has_error |-> TRUE,
              error_details |-> response_data.error,
              has_table |-> extracted.has_table,
              table_data |-> extracted.table_data]
    ELSE LET formatted_text == clean_response_text(response_data.response_text)
             extracted == extract_table_from_response(formatted_text)
         IN  [text |-> formatted_text,
              has_table |-> extracted.has_table,
              table_data |-> extracted.table_data,
              metadata |-> response_data.metadata,
              session_id |-> response_data.session_id,
              status |-> response_data.status]

format_response(response_data) ==
    IF response_data.status = "error"
    THEN [text |-> ErrorPrefix \o response_data.error,
          has_error |-> TRUE,
          error_details |-> response_data.error]
    ELSE LET formatted_text == clean_response_text(response_data.response_text)
             extracted == extract_table_from_response(formatted_text)
         IN  [text |-> formatted_text,
              has_table |-> extracted.has_table,
              table_data |-> extracted.table_data,
              metadata |-> response_data.metadata,
              session_id |-> response_data.session_id,
              status |-> response_data.status]

(***************************************************************************)
(* app.py: extract_sql_query_from_trace                                    *)
(*                                                                         *)
(* A Python value is a record of its type and its content: the characters  *)
(* of a str, the number of an int, the elements of a list, the (key,       *)
(* value) pairs of a dict in insertion order.  A call ends by returning    *)
(* None or a string, or by raising.                                        *)
(***************************************************************************)
PyStr(s) == [type |-> "str", val |-> s]
PyInt(n) == [type |-> "int", val |-> n]
PyNone == [type |-> "none", val |-> 0]
PyList(items) == [type |-> "list", val |-> items]
PyDict(items) == [type |-> "dict", val |-> items]

\* bool(value)
TruthyVal(v) ==
    CASE v.type = "none" -> FALSE
      [] v.type = "int" -> v.val # 0
      [] OTHER -> v.val # <<>>

Return(v) == [kind |-> "return", value |-> v]
Raise(e) == [kind |-> "raise", error |-> e]
FallThrough == [kind |-> "continue"]

\* if result: on the outcome of a recursive call
Truthy(res) ==
    res.kind = "return" /\ res.value # None /\ res.value[1] # <<>>

\* key in d, and d[key] or d.get(key), for a dict d and a str key
HasKey(d, key) == \E i \in 1..Len(d.val) : d.val[i][1].type = "str" /\ d.val[i][1].val = key
Get(d, key) ==
    d.val[CHOOSE i \in 1..Len(d.val) : d.val[i][1].type = "str" /\ d.val[i][1].val = key][2]

\* if key in container: x = container[key], for a container of any type
Lookup(container, key) ==
    CASE container.type = "dict" ->
             IF HasKey(container, key)
             THEN [kind |-> "value", v |-> Get(container, key)]
             ELSE FallThrough
      [] container.type = "list" ->
             IF \E i \in 1..Len(container.val) :
                    container.val[i].type = "str" /\ container.val[i].val = key
             THEN Raise("TypeError")
             ELSE FallThrough
      [] container.type = "str" ->
             IF Contains(container.val, key) THEN Raise("TypeError") ELSE FallThrough
      [] OTHER -> Raise("TypeError")

SqlKeywords ==
    {Chars("select"), Chars("with"), Chars("insert"), Chars("update"), Chars("delete")}

\* any(keyword in s.lower() for keyword in [...])
HasSqlKeyword(s) == \E keyword \in SqlKeywords : Contains(Lower(s), keyword)

\* s.replace(old, new)
RECURSIVE Replace(_, _, _)
Replace(s, old, new) ==
    IF Len(s) < Len(old) THEN s
    ELSE IF SubSeq(s, 1, Len(old)) = old
         THEN new \o Replace(SubSeq(s, Len(old) + 1, Len(s)), old, new)
         ELSE <<s[1]>> \o Replace(Tail(s), old, new)

\* CleanSql without the two replacements
CleanSql_NoUnescape(s) == Strip(s)

\* .replace('\\n', '\n').replace('\\t', '\t').strip()
CleanSql(s) == Strip(Replace(Replace(s, Chars("\\n"), <<NL>>), Chars("\\t"), <<"\t">>))

\* the keyword of a pattern at index i of s, followed by whitespace
KeywordAt(s, keyword, i) ==
    /\ i + Len(keyword) <= Len(s)
    /\ Lower(SubSeq(s, i, i + Len(keyword) - 1)) = keyword
    /\ IsSpace(s[i + Len(keyword)])

\* \s+ taken greedily from index i: the index after the whitespace
RECURSIVE SkipSpaces(_, _)
SkipSpaces(s, i) == IF i <= Len(s) /\ IsSpace(s[i]) THEN SkipSpaces(s, i + 1) ELSE i

\* .*?(?:;|$) from index p: the index of the last character matched
RECURSIVE LazyEnd(_, _)
LazyEnd(s, p) ==
    IF p > Len(s) THEN Len(s)
    ELSE IF s[p] = ";" THEN p
         ELSE IF p = Len(s) /\ s[p] = NL THEN p - 1
              ELSE LazyEnd(s, p + 1)

Min(S) == CHOOSE x \in S : \A y \in S : x <= y

\* re.search(r'KEYWORD\s+.*?(?:;|$)', s, re.IGNORECASE | re.DOTALL): group(0)
StatementMatch(s, keyword) ==
    LET starts == {i \in 1..Len(s) : KeywordAt(s, keyword, i)} IN
    IF starts = {} THEN None
    ELSE LET i == Min(starts) IN
         Some(SubSeq(s, i, LazyEnd(s, SkipSpaces(s, i + Len(keyword)))))

\* re.search(r'WITH\s+.*?SELECT\s+.*?(?:;|$)', s, re.IGNORECASE | re.DOTALL): group(0)
WithMatch(s) ==
    LET selects(i) == {j \in (i + 5)..Len(s) : KeywordAt(s, Chars("select"), j)}
        starts == {i \in 1..Len(s) : KeywordAt(s, Chars("with"), i) /\ selects(i) # {}}
    IN  IF starts = {} THEN None
        ELSE LET i == Min(starts)
                 j == Min(selects(i))
             IN  Some(SubSeq(s, i, LazyEnd(s, SkipSpaces(s, j + 6))))

\* the loop over sql_patterns: the first pattern that matches
PatternMatch(s) ==
    LET matches == <<WithMatch(s), StatementMatch(s, Chars("select")),
                     StatementMatch(s, Chars("insert")), StatementMatch(s, Chars("update")),
                     StatementMatch(s, Chars("delete"))>>
        found == {n \in 1..5 : matches[n] # None}
    IN  IF found = {} THEN None ELSE matches[Min(found)]

\* the branch for a str
SearchStr(data) ==
    IF HasSqlKeyword(data) /\ PatternMatch(data) # None
    THEN Return(Some(CleanSql(PatternMatch(data)[1])))
    ELSE Return(None)

\* the loop over json_content
RECURSIVE LoopJsonContent(_)
LoopJsonContent(items) ==
    IF items = <<>> THEN FallThrough
    ELSE LET item == Head(items) IN
         IF item.type = "dict" /\ HasKey(item, Chars("name"))
                /\ Get(item, Chars("name")).type = "str"
                /\ Get(item, Chars("name")).val = Chars("sql_query")
         THEN LET sql_query == IF HasKey(item, Chars("value"))
                               THEN Get(item, Chars("value")) ELSE PyStr(<<>>)
              IN  IF ~TruthyVal(sql_query) THEN LoopJsonContent(Tail(items))
                  ELSE IF sql_query.type # "str" THEN Raise("AttributeError")
                       ELSE IF HasSqlKeyword(sql_query.val)
                            THEN Return(Some(CleanSql(sql_query.val)))
                            ELSE LoopJsonContent(Tail(items))
         ELSE LoopJsonContent(Tail(items))

\* the body of the loop over invocation_input
InvocationStep(invocation) ==
    IF ~(invocation.type = "dict" /\ HasKey(invocation, Chars("actionGroupInvocationInput")))
    THEN FallThrough
    ELSE LET request_body ==
                 Lookup(Get(invocation, Chars("actionGroupInvocationInput")),
                        Chars("requestBody"))
         IN  IF request_body.kind # "value" THEN request_body
             ELSE LET content == Lookup(request_body.v, Chars("content")) IN
                  IF content.kind # "value" THEN content
                  ELSE LET json_content == Lookup(content.v, Chars("application/json")) IN
                       IF json_content.kind # "value" THEN json_content
                       ELSE IF json_content.v.type = "list"
                            THEN LoopJsonContent(json_content.v.val)
                            ELSE FallThrough

\* the loop over invocation_input
RECURSIVE LoopInvocations(_)
LoopInvocations(invocation_input) ==
    IF invocation_input = <<>> THEN FallThrough
    ELSE LET step == InvocationStep(Head(invocation_input)) IN
         IF step.kind = "continue" THEN LoopInvocations(Tail(invocation_input)) ELSE step

\* the Bedrock trace structure looked for in a dict
StructuralPath(data) ==
    IF HasKey(data, Chars("invocationInput"))
           /\ Get(data, Chars("invocationInput")).type = "list"
    THEN LoopInvocations(Get(data, Chars("invocationInput")).val)
    ELSE FallThrough

SqlKeys == {Chars("sql_query"), Chars("query"), Chars("sql")}

RECURSIVE search_for_sql_in_structure(_)
RECURSIVE SearchItems(_)
RECURSIVE SearchList(_)

\* the loop over data.items()
SearchItems(items) ==
    IF items = <<>> THEN Return(None)
    ELSE LET key == Head(items)[1]
             value == Head(items)[2]
         IN  IF key.type # "str" THEN Raise("AttributeError")
             ELSE IF Lower(key.val) \in SqlKeys /\ value.type = "str"
                        /\ HasSqlKeyword(value.val)
                  THEN Return(Some(CleanSql(value.val)))
                  ELSE IF value.type \in {"dict", "list"}
                       THEN LET sub == search_for_sql_in_structure(value) IN
                            IF sub.kind = "raise" \/ Truthy(sub) THEN sub
                            ELSE SearchItems(Tail(items))
                       ELSE SearchItems(Tail(items))

\* the loop over the items of a list
SearchList(items) ==
    IF items = <<>> THEN Return(None)
    ELSE LET sub == search_for_sql_in_structure(Head(items)) IN
         IF sub.kind = "raise" \/ Truthy(sub) THEN sub
         ELSE SearchList(Tail(items))

\* search_for_sql_in_structure with the items of a dict searched before its
\* structural path
search_KeysFirst(data) ==
    CASE data.type = "dict" ->
             LET by_items == SearchItems(data.val)
                 structural == StructuralPath(data)
             IN  IF by_items.kind = "raise" \/ Truthy(by_items) THEN by_items
                 ELSE IF structural.kind = "continue" THEN Return(None) ELSE structural
      [] data.type = "list" -> SearchList(data.val)
      [] data.type = "str" -> SearchStr(data.val)
      [] OTHER -> Return(None)

search_for_sql_in_structure(data) ==
    CASE data.type = "dict" ->
             LET structural == StructuralPath(data) IN
             IF structural.kind = "continue" THEN SearchItems(data.val) ELSE structural
      [] data.type = "list" -> SearchList(data.val)
      [] data.type = "str" -> SearchStr(data.val)
      [] OTHER -> Return(None)

extract_sql_query_from_trace(trace_data) ==
    IF ~TruthyVal(trace_data) THEN Return(None)
    ELSE search_for_sql_in_structure(trace_data)

(***************************************************************************)
(* app.py: the configuration read when the module is loaded                *)
(*                                                                         *)
(* environ.config is the config module, None when import config raises     *)
(* ImportError; environ.env is os.environ.  Both map a name to None (no    *)
(* such attribute, variable not set) or to a string.                       *)
(***************************************************************************)
\* getattr(config, name, default)
GetAttr(name, default) ==
    IF environ.config[1][name] = None THEN default ELSE environ.config[1][name][1]

\* os.getenv(name, default)
GetEnv(name, default) ==
    IF environ.env[name] = None THEN default ELSE environ.env[name][1]

\* the try statement: the config module if it is importable, else os.environ
Setting(attr, variable, default) ==
    IF environ.config # None THEN GetAttr(attr, default) ELSE GetEnv(variable, default)

DEFAULT_AGENT_ID == Setting("BEDROCK_AGENT_ID", "BEDROCK_AGENT_ID", <<>>)
DEFAULT_AGENT_ALIAS_ID ==
    Setting("BEDROCK_AGENT_ALIAS_ID", "BEDROCK_AGENT_ALIAS_ID", Chars("TSTALIASID"))
DEFAULT_REGION == Setting("AWS_REGION", "AWS_DEFAULT_REGION", Chars("us-east-1"))
DEFAULT_ACCESS_KEY == Setting("AWS_ACCESS_KEY_ID", "AWS_ACCESS_KEY_ID", <<>>)
DEFAULT_SECRET_KEY == Setting("AWS_SECRET_ACCESS_KEY", "AWS_SECRET_ACCESS_KEY", <<>>)
DEFAULT_PROFILE == Setting("AWS_PROFILE", "AWS_PROFILE", <<>>)

\* bool(s) of a string
NonEmpty(s) == s # <<>>

\* AUTO_INITIALIZE with one half of the key pair taken for the pair
AUTO_INITIALIZE_EitherKey ==
    /\ NonEmpty(DEFAULT_AGENT_ID)
    /\ NonEmpty(DEFAULT_AGENT_ALIAS_ID)
    /\ \/ NonEmpty(DEFAULT_ACCESS_KEY) \/ NonEmpty(DEFAULT_SECRET_KEY)
       \/ NonEmpty(DEFAULT_PROFILE)

AUTO_INITIALIZE ==
    /\ NonEmpty(DEFAULT_AGENT_ID)
    /\ NonEmpty(DEFAULT_AGENT_ALIAS_ID)
    /\ \/ NonEmpty(DEFAULT_ACCESS_KEY) /\ NonEmpty(DEFAULT_SECRET_KEY)
       \/ NonEmpty(DEFAULT_PROFILE)

(***************************************************************************)
(* app.py: session state and main                                          *)
(***************************************************************************)
TheClient == Some("BedrockAgentClient")

UserTurn(p) == [role |-> "user", content |-> p]

\* message_data of the try block
MessageData(formatted_response, response) ==
    [role |-> "assistant",
     content |-> formatted_response.text,
     raw_response |-> response,
     has_table |-> IF "has_table" \in DOMAIN formatted_response
                   THEN formatted_response.has_table ELSE FALSE,
     table_data |-> IF "table_data" \in DOMAIN formatted_response
                    THEN formatted_response.table_data ELSE None]

\* formatted_response = format_response(response), then message_data
AssistantTurn(response) == MessageData(format_response(response), response)

\* which st.error the except clause of main emits
Guidance(error_str) ==
    IF Contains(Lower(error_str), Chars("read timed out"))
           \/ Contains(Lower(error_str), Chars("timeout"))
    THEN "timeout"
    ELSE IF Contains(Lower(error_str), Chars("connection"))
         THEN "connection"
         ELSE "generic"

\* the local error_msg when the except clause of main reaches its last
\* statement: it is bound in the else branch alone
ErrorMsg(error_str) ==
    IF Contains(Lower(error_str), Chars("read timed out"))
           \/ Contains(Lower(error_str), Chars("timeout"))
    THEN None
    ELSE IF Contains(Lower(error_str), Chars("connection"))
         THEN None
         ELSE Some(ErrorPrefix \o error_str)

\* main calling send_message without its session identifier
SessionIdArg_Missing == None

\* the session_id argument main passes to send_message
SessionIdArg == Some(session_id)

\* the start of main: the settings are stored and initialize_agent_client()
\* is called; ok tells whether BedrockAgentClient(...) returned
AutoInitialize(ok) ==
    /\ pc = "idle"
    /\ AUTO_INITIALIZE
    /\ agent_client = None
    /\ connect_args' = Some([agent_id |-> DEFAULT_AGENT_ID,
                             agent_alias_id |-> DEFAULT_AGENT_ALIAS_ID,
                             region |-> DEFAULT_REGION,
                             aws_access_key_id |-> DEFAULT_ACCESS_KEY,
                             aws_secret_access_key |-> DEFAULT_SECRET_KEY,
                             aws_profile |-> DEFAULT_PROFILE])
    /\ agent_client' = IF ok THEN TheClient ELSE None
    /\ UNCHANGED <<messages, current_response, session_id, requests, last_event, guidance>>
    /\ UNCHANGED pc
    /\ UNCHANGED callVars
    /\ UNCHANGED otherVars

\* SubmitNotConnected without st.stop(): the user turn is appended
SubmitNotConnected_NoStop(p) ==
    /\ pc = "idle"
    /\ AUTO_INITIALIZE => connect_args # None
    /\ agent_client = None
    /\ p \in Prompts
    /\ guidance' = "not_connected"
    /\ messages' = Append(messages, UserTurn(p))
    /\ UNCHANGED <<agent_client, current_response, session_id, requests, last_event,
                   connect_args>>
    /\ UNCHANGED pc
    /\ UNCHANGED callVars
    /\ UNCHANGED otherVars

\* a prompt is submitted while no client is connected, after the attempt to
\* connect at the start of main if there is one: st.error and st.stop()
SubmitNotConnected(p) ==
    /\ pc = "idle"
    /\ AUTO_INITIALIZE => connect_args # None
    /\ agent_client = None
    /\ p \in Prompts
    /\ guidance' = "not_connected"
    /\ UNCHANGED <<messages, agent_client, current_response, session_id, requests,
                   last_event, connect_args>>
    /\ UNCHANGED pc
    /\ UNCHANGED callVars
    /\ UNCHANGED otherVars

\* a prompt is submitted: the user turn is appended and send_message is called
Submit(p, cap) ==
    /\ pc = "idle"
    /\ agent_client # None
    /\ Len(messages) + 2 <= cap
    /\ messages' = Append(messages, UserTurn(p))
    /\ last_event' = "submit"
    /\ guidance' = "none"
    /\ \E t \in 1..NumTimes : EnterSendMessage("app", p, SessionIdArg, DEFAULT_MAX_RETRIES, t)
    /\ UNCHANGED <<agent_client, current_response, session_id, requests, connect_args>>
    /\ UNCHANGED otherVars

\* send_message has returned: the rest of the try block
HandleResponse ==
    /\ pc = "returned"
    /\ caller = "app"
    /\ current_response' = Some(result[1])
    /\ messages' = Append(messages, AssistantTurn(result[1]))
    /\ pc' = "idle"
    /\ IdleFrame
    /\ UNCHANGED <<agent_client, session_id, requests, last_event, guidance, connect_args>>
    /\ UNCHANGED otherVars

\* a statement of the try block other than invoke_agent raises an Exception
RaiseInTry(e) ==
    /\ pc = "returned"
    /\ caller = "app"
    /\ exc' = Some([text |-> e, origin |-> "main"])
    /\ pc' = "raised"
    /\ UNCHANGED <<caller, message, sid, max_retries, attempt, last_error, result,
                   invocations, sleeps>>
    /\ UNCHANGED appVars
    /\ UNCHANGED otherVars

\* except Exception as e: of main; an unbound error_msg ends the script run
\* with UnboundLocalError before the assistant turn is appended
HandleException ==
    /\ pc = "raised"
    /\ caller = "app"
    /\ LET error_msg == ErrorMsg(exc[1].text) IN
       messages' = IF error_msg = None
                   THEN messages
                   ELSE Append(messages, [role |-> "assistant", content |-> error_msg[1]])
    /\ guidance' = Guidance(exc[1].text)
    /\ pc' = "idle"
    /\ IdleFrame
    /\ UNCHANGED <<agent_client, current_response, session_id, requests, last_event,
                   connect_args>>
    /\ UNCHANGED otherVars

\* NewSession without st.session_state.current_response = None
NewSession_KeepsResponse(h) ==
    /\ pc = "idle"
    /\ messages # <<>>
    /\ messages' = <<>>
    /\ session_id' = ChatId(h)
    /\ requests' = {}
    /\ last_event' = "new_session"
    /\ UNCHANGED <<agent_client, current_response, guidance, connect_args>>
    /\ UNCHANGED pc
    /\ UNCHANGED callVars
    /\ UNCHANGED otherVars

\* the "New Session" button, drawn when the history is not empty;
\* h is the value of uuid.uuid4().hex[:8]
NewSession(h) ==
    /\ pc = "idle"
    /\ messages # <<>>
    /\ messages' = <<>>
    /\ current_response' = None
    /\ session_id' = ChatId(h)
    /\ requests' = {}
    /\ last_event' = "new_session"
    /\ UNCHANGED <<agent_client, guidance, connect_args>>
    /\ UNCHANGED pc
    /\ UNCHANGED callVars
    /\ UNCHANGED otherVars

(***************************************************************************)
(* chat_interface.py: ChatInterface                                        *)
(*                                                                         *)
(* The methods work on st.session_state.messages and                       *)
(* st.session_state.current_response, the entries main works on.  The      *)
(* timestamp of a message is the value of time.time(), which grows from    *)
(* call to call.  A deleted current_response is written as None.           *)
(***************************************************************************)
\* self.max_messages
max_messages == 50

\* LastEntries keeping the oldest entries
LastEntries_Oldest(entries, n) == SubSeq(entries, 1, n)

\* entries[-n:] for 0 < n <= len(entries)
LastEntries(entries, n) == SubSeq(entries, Len(entries) - n + 1, Len(entries))

\* the JSON texts given to import_chat_history, by what json.loads makes of
\* them: it raises, or returns a value that is a dict or another value
NotJson == [loads |-> FALSE]
JsonOther == [loads |-> TRUE, dict |-> FALSE]
JsonDict(data) == [loads |-> TRUE, dict |-> TRUE, data |-> data]

add_message_to_history(role, content) ==
    /\ pc = "idle"
    /\ next_stamp <= MaxStamp
    /\ LET message_ == [role |-> role, content |-> content, timestamp |-> next_stamp]
           appended == Append(messages, message_)
       IN  messages' = IF Len(appended) > max_messages
                       THEN LastEntries(appended, max_messages)
                       ELSE appended
    /\ next_stamp' = next_stamp + 1
    /\ UNCHANGED <<agent_client, current_response, session_id, requests, last_event,
                   guidance, connect_args>>
    /\ UNCHANGED <<pc, callVars, fmtVars, import_ok, environ>>

clear_chat_history ==
    /\ pc = "idle"
    /\ messages' = <<>>
    /\ current_response' = None
    /\ UNCHANGED <<agent_client, session_id, requests, last_event, guidance, connect_args>>
    /\ UNCHANGED <<pc, callVars, otherVars>>

\* a value other than a dict has no key "messages", or raises when it is
\* asked for one: the method returns False
import_chat_history(json_data) ==
    /\ pc = "idle"
    /\ IF json_data.loads /\ json_data.dict /\ "messages" \in DOMAIN json_data.data
                /\ json_data.data.messages.type = "list"
       THEN /\ messages' = json_data.data.messages.val
            /\ import_ok' = Some(TRUE)
       ELSE /\ messages' = messages
            /\ import_ok' = Some(FALSE)
    /\ UNCHANGED <<agent_client, current_response, session_id, requests, last_event,
                   guidance, connect_args>>
    /\ UNCHANGED <<pc, callVars, fmtVars, next_stamp, environ>>

(***************************************************************************)
(* Specifications                                                          *)
(***************************************************************************)
\* a config module that names an agent and a credential profile
ConfigModule ==
    [BEDROCK_AGENT_ID |-> Some(Chars("agent")),
     BEDROCK_AGENT_ALIAS_ID |-> Some(Chars("TSTALIASID")),
     AWS_REGION |-> Some(Chars("us-east-1")),
     AWS_ACCESS_KEY_ID |-> Some(<<>>),
     AWS_SECRET_ACCESS_KEY |-> Some(<<>>),
     AWS_PROFILE |-> Some(Chars("default"))]

NoVariables ==
    [BEDROCK_AGENT_ID |-> None,
     BEDROCK_AGENT_ALIAS_ID |-> None,
     AWS_DEFAULT_REGION |-> None,
     AWS_ACCESS_KEY_ID |-> None,
     AWS_SECRET_ACCESS_KEY |-> None,
     AWS_PROFILE |-> None]

\* the configuration is complete and no connection was attempted
ConfigIdle ==
    /\ environ = [config |-> Some(ConfigModule), env |-> NoVariables]
    /\ connect_args = None

\* no ChatInterface method was called
ChatIdle ==
    /\ next_stamp = 1
    /\ import_ok = None

\* no trace searched, no stream processed
SqlIdle ==
    /\ trace = None
    /\ sql = None

StreamIdle ==
    /\ events = <<>>
    /\ processed = None

FmtIdle ==
    /\ text = <<>>
    /\ cleaned = <<>>
    /\ recleaned = <<>>
    /\ table = NoTable
    /\ turn = None
    /\ fpc = "off"
    /\ SqlIdle
    /\ StreamIdle

CallIdle ==
    /\ pc = "idle"
    /\ caller = "none"
    /\ message = <<>>
    /\ sid = None
    /\ max_retries = 0
    /\ attempt = 0
    /\ last_error = None
    /\ result = NoResult
    /\ invocations = <<>>
    /\ sleeps = <<>>
    /\ exc = NoExc

\* the session state initialisation of app.py
Init ==
    /\ messages = <<>>
    /\ agent_client = None
    /\ current_response = None
    /\ session_id \in ChatIds
    /\ requests = {}
    /\ last_event = "none"
    /\ guidance = "none"
    /\ ConfigIdle
    /\ ChatIdle
    /\ CallIdle
    /\ FmtIdle

\* the errors and answers the agent service gives to the calls of main
AppErrors == {ErrReadTimedOut, ErrAccessDenied}
AppAnswers == {TableAnswer}
\* the errors raised in the try block of main
TryErrors == {ErrReadTimedOut, ErrConnection, ErrAccessDenied}

\* the orchestrator, its calls of send_message, and calls of send_message
\* that pass no session identifier
Next ==
    \/ \E ok \in BOOLEAN : AutoInitialize(ok)
    \/ \E p \in Prompts : SubmitNotConnected(p)
    \/ \E p \in Prompts : Submit(p, MaxTurns)
    \/ \E response_text \in AppAnswers : InvokeSuccess(Answer(response_text))
    \/ \E e \in AppErrors : InvokeFailure(e)
    \/ HandleResponse
    \/ \E e \in TryErrors : RaiseInTry(e)
    \/ HandleException
    \/ \E h \in 1..NumIds : NewSession(h)
    \/ \E msg \in Prompts, t \in 1..NumTimes : DirectCall(msg, None, DEFAULT_MAX_RETRIES, t)
    \/ DirectReturn

Spec == Init /\ [][Next]_vars

\* send_message alone, called with every argument
SessionIdArgs == {None} \cup {Some(c) : c \in ChatIds}

\* the answers of the agent service: one chunk, a stream with a trace and
\* two chunks, and streams whose last chunk cannot be decoded
ClientResponses ==
    {Answer(t) : t \in ResponseTexts}
        \cup {[completion |-> <<TraceEvent(1), ChunkEvent(Chars("o")), ChunkEvent(Chars("k"))>>],
              [completion |-> <<BadChunkEvent>>],
              [completion |-> <<TraceEvent(1), ChunkEvent(PlainAnswer), BadChunkEvent,
                                ChunkEvent(PlainAnswer)>>]}

ClientNext ==
    \/ \E msg \in Prompts, arg \in SessionIdArgs, maxr \in -1..MaxN, t \in 1..NumTimes :
           DirectCall(msg, arg, maxr, t)
    \/ \E response \in ClientResponses : InvokeSuccess(response)
    \/ \E e \in ErrorTexts : InvokeFailure(e)
    \/ LoopExhausted
    \/ DirectReturn

SpecClient == Init /\ [][ClientNext]_vars

\* 26 submissions and their answers, with no error: the orchestrator of Spec
\* with one prompt, one answer, and room for the history to pass MAX_CHAT_HISTORY
LongPrompt == Chars("q1")

LongNext ==
    \/ AutoInitialize(TRUE)
    \/ Submit(LongPrompt, MAX_CHAT_HISTORY + 2)
    \/ InvokeSuccess(Answer(PlainAnswer))
    \/ HandleResponse
    \/ \E h \in 1..NumIds : NewSession(h)

SpecLong == Init /\ [][LongNext]_vars

\* the calls of send_message with max_retries >= 0, by main and, before the
\* first submission, by other code; one of the errors of the agent service
\* names both a denied access and a connection
CallErrors == {ErrReadTimedOut, ErrAccessDenied, ErrDeniedConnection}

InvokeStep ==
    \/ InvokeSuccess(Answer(PlainAnswer))
    \/ \E e \in CallErrors : InvokeFailure(e)

CallNext ==
    \/ AutoInitialize(TRUE)
    \/ Submit(LongPrompt, MaxTurns)
    \/ \E maxr \in 0..MaxN : messages = <<>> /\ DirectCall(LongPrompt, None, maxr, 1)
    \/ InvokeStep
    \/ HandleResponse
    \/ DirectReturn

\* invoke_agent returns or raises within the read and connect timeouts of
\* the botocore configuration, and time.sleep returns: an iteration that
\* has started ends
SpecCall == Init /\ [][CallNext]_vars /\ WF_vars(InvokeStep)

(***************************************************************************)
(* The formatter's functions applied to bounded inputs                     *)
(***************************************************************************)
MaxLen == 4        \* longest text drawn character by character
MaxLines == 3      \* most lines of a text drawn line by line

Alphabet == {"a", "|", "-", " ", NL}
CharTexts == UNION {[1..n -> Alphabet] : n \in 0..MaxLen}

TableLineChoices ==
    {Chars("a|b"), Chars("1|2"), Chars("3"), Chars("|a|b|"), Chars("|1|2|"), Chars("|3|"),
     Chars("|---|---|"), <<>>}
LineTexts == UNION {{Join(ls, NL) : ls \in [1..n -> TableLineChoices]} : n \in 1..MaxLines}

FmtInit ==
    /\ messages = <<>>
    /\ agent_client = None
    /\ current_response = None
    /\ session_id = ChatId(1)
    /\ requests = {}
    /\ last_event = "none"
    /\ guidance = "none"
    /\ ConfigIdle
    /\ ChatIdle
    /\ CallIdle
    /\ text \in CharTexts \cup LineTexts
    /\ cleaned = <<>>
    /\ recleaned = <<>>
    /\ table = NoTable
    /\ turn = None
    /\ fpc = "start"
    /\ SqlIdle
    /\ StreamIdle

CleanText ==
    /\ fpc = "start"
    /\ cleaned' = clean_response_text(text)
    /\ fpc' = "cleaned"
    /\ UNCHANGED <<text, recleaned, table, turn>>
    /\ UNCHANGED <<appVars, pc, callVars, chatVars, environ, sqlVars, streamVars>>

CleanAgain ==
    /\ fpc = "cleaned"
    /\ recleaned' = clean_response_text(cleaned)
    /\ fpc' = "recleaned"
    /\ UNCHANGED <<text, cleaned, table, turn>>
    /\ UNCHANGED <<appVars, pc, callVars, chatVars, environ, sqlVars, streamVars>>

ExtractTable ==
    /\ fpc = "start"
    /\ table' = extract_table_from_response(text)
    /\ fpc' = "extracted"
    /\ UNCHANGED <<text, cleaned, recleaned, turn>>
    /\ UNCHANGED <<appVars, pc, callVars, chatVars, environ, sqlVars, streamVars>>

\* main builds the assistant turn from the failure result whose last error is text
FormatError ==
    /\ fpc = "start"
    /\ \E response \in {ErrorResult(DEFAULT_MAX_RETRIES, Some(text), session_id)} :
           turn' = Some(AssistantTurn(response))
    /\ fpc' = "error_formatted"
    /\ UNCHANGED <<text, cleaned, recleaned, table>>
    /\ UNCHANGED <<appVars, pc, callVars, chatVars, environ, sqlVars, streamVars>>

\* main builds the assistant turn from the success result whose answer is text
FormatSuccess ==
    /\ fpc = "start"
    /\ \E response \in {SuccessResult(process_streaming_response(Answer(text)),
                                       session_id, 0)} :
           turn' = Some(AssistantTurn(response))
    /\ fpc' = "formatted"
    /\ UNCHANGED <<text, cleaned, recleaned, table>>
    /\ UNCHANGED <<appVars, pc, callVars, chatVars, environ, sqlVars, streamVars>>

FmtNext == CleanText \/ CleanAgain \/ ExtractTable \/ FormatError \/ FormatSuccess

SpecFmt == FmtInit /\ [][FmtNext]_vars

(***************************************************************************)
(* _process_streaming_response applied to bounded event streams            *)
(***************************************************************************)
MaxEvents == 3     \* most events of a stream

EventChoices ==
    {ChunkEvent(Chars("a")), ChunkEvent(Chars("b")), EmptyChunkEvent, BadChunkEvent,
     TraceEvent(1), TraceEvent(2), ReturnControlEvent, FilesEvent}
EventStreams == UNION {[1..n -> EventChoices] : n \in 0..MaxEvents}

StreamInit ==
    /\ messages = <<>>
    /\ agent_client = None
    /\ current_response = None
    /\ session_id = ChatId(1)
    /\ requests = {}
    /\ last_event = "none"
    /\ guidance = "none"
    /\ ConfigIdle
    /\ ChatIdle
    /\ CallIdle
    /\ text = <<>>
    /\ cleaned = <<>>
    /\ recleaned = <<>>
    /\ table = NoTable
    /\ turn = None
    /\ SqlIdle
    /\ events \in EventStreams
    /\ processed = None
    /\ fpc = "start"

\* the responses whose event stream is events: with the key 'completion',
\* and without it when there is no event
ResponsesOf(evs) ==
    {[completion |-> evs]} \cup (IF evs = <<>> THEN {[contentType |-> "text"]} ELSE {})

ProcessStream ==
    /\ fpc = "start"
    /\ \E response \in ResponsesOf(events) :
           processed' = Some(process_streaming_response(response))
    /\ fpc' = "processed"
    /\ UNCHANGED <<text, cleaned, recleaned, table, turn, events>>
    /\ UNCHANGED <<appVars, pc, callVars, chatVars, environ, sqlVars>>

StreamNext == ProcessStream

SpecStream == StreamInit /\ [][StreamNext]_vars

(***************************************************************************)
(* extract_sql_query_from_trace applied to bounded trace structures        *)
(***************************************************************************)
MaxItems == 2      \* most elements of a list, most pairs of a json content

SqlStatement == Chars("x SELECT 1; y")
EscapedSql == Chars(" SELECT\\n*\\tFROM t ")
WithSql == Chars("WITH c SELECT 2;z")
KeywordOnly == Chars("selection")
NoSqlText == Chars("hello")
TraceStrings == {SqlStatement, EscapedSql, WithSql, KeywordOnly, NoSqlText}

Leaves == {PyStr(t) : t \in TraceStrings} \cup {PyInt(5)}
TraceKeys ==
    {PyStr(Chars("sql_query")), PyStr(Chars("SQL")), PyStr(Chars("text")), PyInt(1)}

\* the Bedrock trace structure
Pair(name, value) ==
    PyDict(<<<<PyStr(Chars("name")), PyStr(name)>>, <<PyStr(Chars("value")), value>>>>)
Content(json_content) == PyDict(<<<<PyStr(Chars("application/json")), json_content>>>>)
RequestBody(content) == PyDict(<<<<PyStr(Chars("content")), content>>>>)
ActionGroup(request_body) == PyDict(<<<<PyStr(Chars("requestBody")), request_body>>>>)
Invocation(action_group) ==
    PyDict(<<<<PyStr(Chars("actionGroupInvocationInput")), action_group>>>>)
InvocationOf(pairs) == Invocation(ActionGroup(RequestBody(Content(PyList(pairs)))))
Bedrock(before, invocation_input, after) ==
    PyDict(before \o <<<<PyStr(Chars("invocationInput")), invocation_input>>>> \o after)

PairChoices == {Pair(name, value) : name \in {Chars("sql_query"), Chars("other")},
                                    value \in Leaves}
PairLists == UNION {[1..n -> PairChoices] : n \in 0..MaxItems}

\* a direct key beside invocationInput, and a sibling holding a statement
SqlItem == <<PyStr(Chars("sql")), PyStr(Chars("select 9"))>>
TextListItem == <<PyStr(Chars("text")), PyList(<<PyStr(SqlStatement)>>)>>
Siblings == {<<<<>>, <<>>>>, <<<<SqlItem>>, <<>>>>, <<<<>>, <<SqlItem>>>>,
             <<<<TextListItem>>, <<>>>>}

BedrockTraces ==
    {Bedrock(sib[1], PyList(<<InvocationOf(pairs)>>), sib[2]) :
         pairs \in PairLists, sib \in Siblings}
        \cup {Bedrock(<<>>, PyList(<<InvocationOf(<<p>>), InvocationOf(<<q>>)>>), <<>>) :
                  p \in PairChoices, q \in {Pair(Chars("sql_query"), PyStr(SqlStatement))}}

\* nodes of the structure that are not of the expected type
Unexpected ==
    {PyNone, PyInt(5), PyStr(NoSqlText), PyStr(Chars("requestBody content application/json")),
     PyList(<<>>), PyList(<<PyStr(Chars("requestBody"))>>)}
GoodPairs == <<Pair(Chars("sql_query"), PyStr(SqlStatement))>>
MalformedTraces ==
    {Bedrock(<<>>, PyList(<<Invocation(u), InvocationOf(GoodPairs)>>), <<>>) :
         u \in Unexpected}
        \cup {Bedrock(<<>>, PyList(<<Invocation(ActionGroup(u))>>), <<>>) : u \in Unexpected}
        \cup {Bedrock(<<>>, PyList(<<Invocation(ActionGroup(RequestBody(u)))>>), <<>>) :
                  u \in Unexpected}
        \cup {Bedrock(<<>>, PyList(<<Invocation(ActionGroup(RequestBody(Content(u))))>>),
                      <<>>) : u \in Unexpected}
        \cup {Bedrock(<<>>, u, <<SqlItem>>) : u \in Unexpected}
        \cup {Bedrock(<<>>, PyList(<<InvocationOf(<<Pair(Chars("sql_query"), u)>>)>>), <<>>) :
                  u \in Unexpected}

\* dicts of one and of two items
Values ==
    Leaves \cup {PyList(<<PyStr(SqlStatement)>>), PyList(<<PyStr(NoSqlText)>>),
                 PyDict(<<SqlItem>>)}
Items == {<<k, v>> : k \in TraceKeys, v \in Values}
DictTraces ==
    {PyDict(<<i>>) : i \in Items}
        \cup UNION {{PyDict(<<i, j>>) : j \in {x \in Items : x[1] # i[1]}} : i \in Items}

\* lists of leaves, small dicts and a Bedrock structure
Elements ==
    Leaves \cup {PyDict(<<<<PyStr(Chars("text")), PyStr(SqlStatement)>>>>),
                 PyDict(<<SqlItem>>),
                 Bedrock(<<>>, PyList(<<InvocationOf(GoodPairs)>>), <<>>),
                 Bedrock(<<>>, PyList(<<InvocationOf(<<Pair(Chars("sql_query"),
                                                            PyStr(NoSqlText))>>)>>), <<>>)}
ListTraces == {PyList(l) : l \in UNION {[1..n -> Elements] : n \in 0..MaxItems}}

\* empty or absent trace data
EmptyTraces == {PyNone, PyInt(0), PyStr(<<>>), PyList(<<>>), PyDict(<<>>)}

Traces ==
    EmptyTraces \cup Leaves \cup ListTraces \cup DictTraces \cup BedrockTraces
        \cup MalformedTraces

SqlInit ==
    /\ messages = <<>>
    /\ agent_client = None
    /\ current_response = None
    /\ session_id = ChatId(1)
    /\ requests = {}
    /\ last_event = "none"
    /\ guidance = "none"
    /\ ConfigIdle
    /\ ChatIdle
    /\ CallIdle
    /\ text = <<>>
    /\ cleaned = <<>>
    /\ recleaned = <<>>
    /\ table = NoTable
    /\ turn = None
    /\ StreamIdle
    /\ trace \in {Some(t) : t \in Traces}
    /\ sql = None
    /\ fpc = "start"

ExtractSql ==
    /\ fpc = "start"
    /\ sql' = Some(extract_sql_query_from_trace(trace[1]))
    /\ fpc' = "searched"
    /\ UNCHANGED <<text, cleaned, recleaned, table, turn, trace>>
    /\ UNCHANGED <<appVars, pc, callVars, chatVars, environ, streamVars>>

SqlNext == ExtractSql

SpecSql == SqlInit /\ [][SqlNext]_vars

(***************************************************************************)
(* The methods of ChatInterface called in any order                        *)
(***************************************************************************)
\* an exported history of n messages
ExportedHistory(n) ==
    [i \in 1..n |-> [role |-> "assistant", content |-> IntStr(i), timestamp |-> 0]]

ImportLengths == {0, 1, max_messages, max_messages + 1}

JsonTexts ==
    {NotJson, JsonOther,
     JsonDict([total_messages |-> 0]),
     JsonDict([messages |-> PyStr(Chars("none"))])}
        \cup {JsonDict([messages |-> PyList(ExportedHistory(n))]) : n \in ImportLengths}

ChatNext ==
    \/ add_message_to_history("user", LongPrompt)
    \/ clear_chat_history
    \/ \E json_data \in JsonTexts : import_chat_history(json_data)

SpecChat == Init /\ [][ChatNext]_vars

(***************************************************************************)
(* The start of main under every configuration                             *)
(***************************************************************************)
\* an attribute of the config module: missing, empty or filled
AttrValues == {None, Some(<<>>), Some(Chars("f"))}
\* an environment variable: not set, or set
VarValues == {None, Some(Chars("e"))}

ConfigModules ==
    {[BEDROCK_AGENT_ID |-> a, BEDROCK_AGENT_ALIAS_ID |-> b,
      AWS_REGION |-> Some(Chars("us-east-1")),
      AWS_ACCESS_KEY_ID |-> k, AWS_SECRET_ACCESS_KEY |-> x, AWS_PROFILE |-> q] :
        a \in AttrValues, b \in AttrValues, k \in AttrValues, x \in AttrValues,
        q \in AttrValues}

Environments ==
    {[BEDROCK_AGENT_ID |-> a, BEDROCK_AGENT_ALIAS_ID |-> b,
      AWS_DEFAULT_REGION |-> None,
      AWS_ACCESS_KEY_ID |-> k, AWS_SECRET_ACCESS_KEY |-> x, AWS_PROFILE |-> q] :
        a \in VarValues, b \in VarValues \cup {Some(<<>>)}, k \in VarValues,
        x \in VarValues, q \in VarValues}

ConfigInit ==
    /\ messages = <<>>
    /\ agent_client = None
    /\ current_response = None
    /\ session_id = ChatId(1)
    /\ requests = {}
    /\ last_event = "none"
    /\ guidance = "none"
    /\ environ \in [config : {None} \cup {Some(c) : c \in ConfigModules}, env : Environments]
    /\ connect_args = None
    /\ ChatIdle
    /\ CallIdle
    /\ FmtIdle

ConfigNext ==
    \/ \E ok \in BOOLEAN : AutoInitialize(ok)
    \/ \E p \in Prompts : SubmitNotConnected(p)

SpecConfig == ConfigInit /\ [][ConfigNext]_vars

(***************************************************************************)
(* Properties                                                              *)
(***************************************************************************)
\* the retryable errors as the specification words them
RetryableText(t) ==
    \E k \in {"timeout", "connection", "read timed out", "connection pool"} :
        Contains(Lower(t), Chars(k))

Failed(i) == invocations[i].outcome # None
AllFailedRetryable ==
    \A i \in 1..Len(invocations) : Failed(i) /\ RetryableText(invocations[i].outcome[1])

\* C1: when every invocation of a call with max_retries = N >= 0 fails with a
\* retryable error, the call does not return before its invocation N + 1, and
\* returns after it a failure result whose metadata.attempts is N + 1.
C1_RetriesExhausted ==
    (pc \in {"loop", "returned"} /\ max_retries >= 0 /\ AllFailedRetryable) =>
        /\ pc = "loop" => Len(invocations) < max_retries + 1
        /\ pc = "returned" =>
               /\ Len(invocations) = max_retries + 1
               /\ result[1].status = "error"
               /\ result[1].metadata.attempts = max_retries + 1

C1_Witness ==
    /\ pc = "returned"
    /\ max_retries = 2
    /\ Len(invocations) = 3
    /\ \A i \in 1..3 : invocations[i].outcome = Some(ErrReadTimedOut)
    /\ result[1].metadata.attempts = 3

\* C2: an invocation that fails with an error holding no retryable keyword is
\* the last invocation of its call, so that when the first invocation fails
\* this way the call makes one attempt.
C2_NoRetryOfOtherErrors ==
    \A i \in 1..Len(invocations) :
        (Failed(i) /\ ~RetryableText(invocations[i].outcome[1])) =>
            (i = Len(invocations) /\ pc # "loop")

C2_Witness ==
    /\ pc = "returned"
    /\ max_retries = 2
    /\ Len(invocations) = 1
    /\ invocations[1].outcome = Some(ErrAccessDenied)

\* C3: a failure result carries in its metadata the number of invocations the
\* call made, and in its error text the description of the last error.
C3_AttemptsCountInvocations ==
    (pc = "returned" /\ result[1].status = "error") =>
        /\ result[1].metadata.attempts = Len(invocations)
        /\ Contains(result[1].error, StrOfError(last_error))

\* C4: no error raised by invoke_agent leaves send_message as an exception;
\* the call returns a result whose status is "success" or "error".
C4_NeverPropagates ==
    /\ pc = "raised" => exc[1].origin # "invoke_agent"
    /\ pc = "returned" => (result # NoResult /\ result[1].status \in {"success", "error"})

C4_Witness ==
    /\ pc = "returned"
    /\ result[1].status = "error"
    /\ Len(invocations) = 3
    /\ invocations[1].outcome = Some(ErrConnection)
    /\ invocations[3].outcome = Some(ErrAccessDenied)

\* C5: the invocations issued for user submissions since the last reset carry
\* one session identifier, and the invocations of one call carry the session
\* identifier and the message of its first invocation, also when the caller
\* passed no session identifier.
C5_SameSession ==
    /\ Cardinality(requests) <= 1
    /\ \A i \in 1..Len(invocations) :
           /\ invocations[i].sessionId = invocations[1].sessionId
           /\ invocations[i].inputText = invocations[1].inputText
           /\ invocations[i].inputText = message

C5_Witness ==
    /\ caller = "app"
    /\ Len(messages) = 3
    /\ messages[1].content # messages[3].content
    /\ Len(invocations) = 3
    /\ requests = {session_id}

\* C6: between submissions the history is a sequence of pairs, a user turn
\* followed by one assistant turn, whatever happened while each submission
\* was handled.
C6_TwoTurnsPerSubmission ==
    pc = "idle" =>
        /\ Len(messages) % 2 = 0
        /\ \A i \in 1..Len(messages) :
               messages[i].role = (IF i % 2 = 1 THEN "user" ELSE "assistant")

\* C7: the history of the orchestrator holds at most MAX_CHAT_HISTORY turns.
C7_HistoryCapped == Len(messages) <= MAX_CHAT_HISTORY

NewSessionStep == \E h \in 1..NumIds : NewSession(h)

\* C8 as stated: a "new session" request empties the history, clears the
\* cached response, replaces the session identifier by a different one and
\* leaves the agent client alone.
C8_FreshIdentifier ==
    [][NewSessionStep =>
          /\ messages' = <<>>
          /\ current_response' = None
          /\ session_id' # session_id
          /\ agent_client' = agent_client]_vars

\* C8: a "new session" request empties the history, clears the cached
\* response, replaces the session identifier by a newly drawn one of the form
\* streamlit-chat-<8 hex digits> (which may be the identifier in use before)
\* and leaves the agent client alone.
C8_NewSession ==
    [][NewSessionStep =>
          /\ messages' = <<>>
          /\ current_response' = None
          /\ session_id' \in ChatIds
          /\ agent_client' = agent_client]_vars

C8_Witness ==
    /\ last_event = "new_session"
    /\ pc = "idle"
    /\ messages = <<>>
    /\ current_response = None
    /\ agent_client = TheClient
    /\ requests = {}

\* C9: clean_response_text is idempotent.
C9_Idempotent == fpc = "recleaned" => recleaned = cleaned

Cell(c) == Chars(c)
ExpectedTable ==
    [has_table |-> TRUE,
     table_data |-> Some([headers |-> <<Cell("a"), Cell("b")>>,
                          rows |-> <<<<Cell("a"), Cell("b")>>, <<Cell("1"), Cell("2")>>>>,
                          row_count |-> 1])]

\* the table lines the scan of text collects, parsed
ParsedLines ==
    LET table_lines == CollectTableLines(Split(text, NL), FALSE, <<>>)
    IN  [i \in 1..Len(table_lines) |-> parse_table_row(table_lines[i])]

\* of the collected lines after the first, those with matching cell count are
\* the rows after the header, in order
MatchingRowsKept ==
    LET parsed == ParsedLines
        matching == SelectSeq(Tail(parsed), LAMBDA r : Len(r) = Len(parsed[1]))
    IN  Len(parsed) >= 2 =>
            IF matching = <<>>
            THEN table = NoTable
            ELSE /\ table.has_table
                 /\ table.table_data[1].rows = <<parsed[1]>> \o matching
                 /\ table.table_data[1].row_count = Len(matching)

\* C10 as stated: the lines a|b, 1|2 and 3 give rows [[a,b],[1,2]] and row
\* count 1; rows with matching cell count are kept, the others discarded.
C10_UnframedExample ==
    fpc = "extracted" =>
        /\ text = Chars("a|b\n1|2\n3") => table = ExpectedTable
        /\ MatchingRowsKept

\* C10: the lines |a|b|, |1|2| and |3| give rows [[a,b],[1,2]] and row count
\* 1; of the lines collected as table lines after the first, those with the
\* header's cell count are kept, in order, and the others discarded.
C10_FramedExample ==
    fpc = "extracted" =>
        /\ text = Chars("|a|b|\n|1|2|\n|3|") => table = ExpectedTable
        /\ MatchingRowsKept

C10_Witness ==
    /\ fpc = "extracted"
    /\ text = Chars("|a|b|\n|1|2|\n|3|")
    /\ table = ExpectedTable

\* C11: whenever extract_table_from_response returns true, every row, the
\* header row at index 0 included, has exactly len(headers) cells, rows[0] is
\* the headers, and row_count is len(rows) - 1 and at least 1.
C11_TableWellFormed ==
    (fpc = "extracted" /\ table.has_table) =>
        LET td == table.table_data[1] IN
        /\ \A i \in 1..Len(td.rows) : Len(td.rows[i]) = Len(td.headers)
        /\ Len(td.rows) >= 1
        /\ td.rows[1] = td.headers
        /\ td.row_count = Len(td.rows) - 1
        /\ td.row_count >= 1

\* a table was returned from a text of which one collected line was discarded
C11_Witness ==
    /\ fpc = "extracted"
    /\ table.has_table
    /\ Len(ParsedLines) > Len(table.table_data[1].rows)

\* the lines of t that contain a pipe and are not separator lines
PipeLinesLeft(t) ==
    SelectSeq(Split(t, NL),
              LAMBDA l : /\ Contains(Strip(l), <<"|">>)
                         /\ ~Contains(Strip(l), Dashes)
                         /\ ~Contains(Strip(l), BoxBars))

\* the collected lines after the first all differ from the header in cell count
OnlyHeaderSurvives ==
    /\ Len(ParsedLines) >= 2
    /\ \A i \in 2..Len(ParsedLines) : Len(ParsedLines[i]) # Len(ParsedLines[1])

\* C12: extract_table_from_response returns (false, null) for every text of
\* which fewer than 2 pipe-containing lines remain once the separator lines
\* are skipped, and for every text of which only the header row passes the
\* cell-count filter.
C12_NoTable ==
    fpc = "extracted" =>
        /\ Len(PipeLinesLeft(text)) < 2 => table = NoTable
        /\ OnlyHeaderSurvives => table = NoTable

\* a text with a separator line and one other pipe line gave no table
C12_Witness ==
    /\ fpc = "extracted"
    /\ Len(PipeLinesLeft(text)) = 1
    /\ \E i \in 1..Len(Split(text, NL)) :
           /\ Contains(Split(text, NL)[i], <<"|">>)
           /\ Contains(Split(text, NL)[i], Dashes)
    /\ table = NoTable

\* a text of which only the header row passed the filter gave no table
C12_HeaderOnly ==
    /\ fpc = "extracted"
    /\ OnlyHeaderSurvives
    /\ table = NoTable

\* C20: an assistant turn built from a response whose status is 'error'
\* carries no table data: has_table is false and table_data is absent for
\* every error text, also one that holds pipe-framed table lines.
C20_ErrorTurnHasNoTable ==
    fpc = "error_formatted" =>
        /\ turn[1].raw_response.status = "error"
        /\ turn[1].has_table = FALSE
        /\ turn[1].table_data = None

\* the turn of an error whose text, taken as an answer, holds a table
C20_Witness ==
    /\ fpc = "error_formatted"
    /\ extract_table_from_response(turn[1].raw_response.error).has_table
    /\ turn[1].has_table = FALSE

\* no chunk of the stream holds bytes that cannot be decoded
ConsumedWithoutError(evs) ==
    \A i \in 1..Len(evs) :
        ("chunk" \in DOMAIN evs[i] /\ "bytes" \in DOMAIN evs[i].chunk)
            => evs[i].chunk.bytes.decodes

RECURSIVE ConcatAll(_)
ConcatAll(ss) == IF ss = <<>> THEN <<>> ELSE Head(ss) \o ConcatAll(Tail(ss))

IsChunk(e) == "chunk" \in DOMAIN e
IsTraceOrControl(e) == "trace" \in DOMAIN e \/ "returnControl" \in DOMAIN e
ChunkText(e) == IF "bytes" \in DOMAIN e.chunk THEN e.chunk.bytes.text ELSE <<>>
TraceEntry(e) ==
    IF "trace" \in DOMAIN e THEN e.trace
    ELSE [type |-> "return_control", data |-> e.returnControl]

\* C18: for every event sequence consumed without error, the response text
\* is the concatenation of the chunk events' texts in arrival order, and the
\* trace list holds exactly one entry per trace or returnControl event, in
\* arrival order, and none for the chunk events.
C18_StreamAggregation ==
    (fpc = "processed" /\ ConsumedWithoutError(events)) =>
        LET chunkEvents == SelectSeq(events, IsChunk)
            traceEvents == SelectSeq(events, IsTraceOrControl)
        IN  /\ processed[1].text =
                   ConcatAll([i \in 1..Len(chunkEvents) |-> ChunkText(chunkEvents[i])])
            /\ processed[1].trace_data =
                   [i \in 1..Len(traceEvents) |-> TraceEntry(traceEvents[i])]

\* two chunks around a returnControl event
C18_Witness ==
    /\ fpc = "processed"
    /\ events = <<ChunkEvent(Chars("a")), ReturnControlEvent, ChunkEvent(Chars("b"))>>
    /\ processed[1].text = Chars("ab")
    /\ Len(processed[1].trace_data) = 1

\* the invoke_agent call i returned a stream that cannot be consumed
StreamFailed(i) ==
    /\ invocations[i].outcome = None
    /\ ~ConsumedWithoutError(Completion(invocations[i].response))

\* C19: if consuming the streamed events fails, send_message neither raises
\* nor retries: it returns a result whose text is an error description in
\* place of the chunk text aggregated before the failure, and that result is
\* not a success answer.
C19_StreamFailure ==
    \A i \in 1..Len(invocations) :
        StreamFailed(i) =>
            /\ i = Len(invocations)
            /\ pc = "returned"
            /\ result[1].response_text = ErrorProcessing \o DecodeError
            /\ result[1].status # "success"

\* the strings of a trace structure: the value itself, the elements of its
\* lists and the values of its dicts, at any depth
RECURSIVE AllStrings(_)
AllStrings(v) ==
    CASE v.type = "str" -> {v.val}
      [] v.type = "list" -> UNION {AllStrings(v.val[i]) : i \in 1..Len(v.val)}
      [] v.type = "dict" -> UNION {AllStrings(v.val[i][2]) : i \in 1..Len(v.val)}
      [] OTHER -> {}

\* s holds a WITH...SELECT, SELECT, INSERT, UPDATE or DELETE statement
HasStatement(s) == PatternMatch(s) # None

\* C13: clean_response_text, extract_table_from_response and
\* extract_sql_query_from_trace return a value and never raise, for every
\* input, trace structures with nodes of unexpected types included.
C13_Total == fpc = "searched" => sql[1].kind = "return"

\* C14: if any string value anywhere in the trace structure holds a
\* statement, extract_sql_query_from_trace returns a query, not None (stated
\* here for the calls that return).
C14_AnyStringValueFound ==
    (/\ fpc = "searched"
     /\ sql[1].kind = "return"
     /\ \E t \in AllStrings(trace[1]) : HasStatement(t))
        => sql[1].value # None

\* the pairs of json content an invocation reaches, none if the path to them
\* is not there
PathPairs(invocation) ==
    LET Step(v, key) == IF v.type = "dict" /\ HasKey(v, key) THEN Get(v, key) ELSE PyNone
        json_content ==
            Step(Step(Step(Step(invocation, Chars("actionGroupInvocationInput")),
                           Chars("requestBody")), Chars("content")),
                 Chars("application/json"))
    IN  IF json_content.type = "list" THEN json_content.val ELSE <<>>

\* a pair named sql_query whose value is a string holding a keyword
Qualifies(p) ==
    /\ p.type = "dict"
    /\ HasKey(p, Chars("name"))
    /\ Get(p, Chars("name")) = PyStr(Chars("sql_query"))
    /\ HasKey(p, Chars("value"))
    /\ Get(p, Chars("value")).type = "str"
    /\ HasSqlKeyword(Get(p, Chars("value")).val)

\* the pairs the structural path of a dict reaches, in order
AllPairs(d) ==
    IF HasKey(d, Chars("invocationInput")) /\ Get(d, Chars("invocationInput")).type = "list"
    THEN LET invocation_input == Get(d, Chars("invocationInput")).val
         IN  ConcatAll([i \in 1..Len(invocation_input) |-> PathPairs(invocation_input[i])])
    ELSE <<>>

\* what the structural path of a dict offers, in order
StructuralOffers(d) ==
    LET qualifying == SelectSeq(AllPairs(d), Qualifies)
    IN  [i \in 1..Len(qualifying) |-> CleanSql(Get(qualifying[i], Chars("value")).val)]

\* the item of a dict is a key match
DirectKey(item) ==
    /\ item[1].type = "str"
    /\ Lower(item[1].val) \in SqlKeys
    /\ item[2].type = "str"
    /\ HasSqlKeyword(item[2].val)

\* every successful extraction of a structure, in depth-first order: at a
\* dict its structural path, then item by item the key match or else the
\* extractions of a nested dict or list
RECURSIVE Candidates(_)
Candidates(v) ==
    CASE v.type = "dict" ->
             StructuralOffers(v) \o
             ConcatAll([i \in 1..Len(v.val) |->
                          IF DirectKey(v.val[i]) THEN <<CleanSql(v.val[i][2].val)>>
                          ELSE IF v.val[i][2].type \in {"dict", "list"}
                               THEN Candidates(v.val[i][2])
                               ELSE <<>>])
      [] v.type = "list" -> ConcatAll([i \in 1..Len(v.val) |-> Candidates(v.val[i])])
      [] v.type = "str" ->
             IF HasStatement(v.val) THEN <<CleanSql(PatternMatch(v.val)[1])>> ELSE <<>>
      [] OTHER -> <<>>

\* C15: at a dict that offers both a structural-path match and a directly
\* matching key the structural value is returned; a key match returns the
\* whole value, before any pattern is tried on it; and the value returned
\* is the first successful extraction in depth-first order.
C15_SearchOrder ==
    (fpc = "searched" /\ sql[1].kind = "return") =>
        LET root == trace[1] IN
        /\ sql[1].value = IF TruthyVal(root) /\ Candidates(root) # <<>>
                          THEN Some(Head(Candidates(root))) ELSE None
        /\ (/\ root.type = "dict"
            /\ StructuralOffers(root) # <<>>
            /\ \E i \in 1..Len(root.val) : DirectKey(root.val[i]))
               => sql[1].value = Some(Head(StructuralOffers(root)))
        /\ (/\ root.type = "dict"
            /\ StructuralOffers(root) = <<>>
            /\ root.val # <<>>
            /\ DirectKey(root.val[1]))
               => sql[1].value = Some(Strip(Replace(Replace(root.val[1][2].val,
                                         Chars("\\n"), <<NL>>), Chars("\\t"), <<"\t">>)))

\* a dict with the key sql before invocationInput gave the structural value
C15_Witness ==
    /\ fpc = "searched"
    /\ trace[1] = Bedrock(<<SqlItem>>,
                          PyList(<<InvocationOf(<<Pair(Chars("sql_query"),
                                                       PyStr(SqlStatement))>>)>>), <<>>)
    /\ sql[1] = Return(Some(SqlStatement))

\* v is a dict that holds key
HasDict(v, key) == v.type = "dict" /\ HasKey(v, key)

\* a {name, value} pair whose name and value are strings
IsPair(p) ==
    /\ HasDict(p, Chars("name"))
    /\ Get(p, Chars("name")).type = "str"
    /\ HasKey(p, Chars("value"))
    /\ Get(p, Chars("value")).type = "str"

\* an invocation that holds the path to a list of pairs
IsInvocation(invocation) ==
    LET action_group == Get(invocation, Chars("actionGroupInvocationInput"))
        request_body == Get(action_group, Chars("requestBody"))
        content == Get(request_body, Chars("content"))
        json_content == Get(content, Chars("application/json"))
    IN  /\ HasDict(invocation, Chars("actionGroupInvocationInput"))
        /\ HasDict(action_group, Chars("requestBody"))
        /\ HasDict(request_body, Chars("content"))
        /\ HasDict(content, Chars("application/json"))
        /\ json_content.type = "list"
        /\ \A n \in 1..Len(json_content.val) : IsPair(json_content.val[n])

\* the Bedrock trace structure: a dict whose invocationInput is a list of
\* such invocations
IsBedrock(d) ==
    /\ HasDict(d, Chars("invocationInput"))
    /\ Get(d, Chars("invocationInput")).type = "list"
    /\ Get(d, Chars("invocationInput")).val # <<>>
    /\ \A i \in 1..Len(Get(d, Chars("invocationInput")).val) :
           IsInvocation(Get(d, Chars("invocationInput")).val[i])

\* a Bedrock trace: such a dict, or a list of such dicts without other keys
IsBedrockTrace(t) ==
    \/ IsBedrock(t)
    \/ /\ t.type = "list"
       /\ t.val # <<>>
       /\ \A i \in 1..Len(t.val) : IsBedrock(t.val[i]) /\ Len(t.val[i].val) = 1

\* its pairs, in order
BedrockPairs(t) ==
    IF t.type = "list" THEN ConcatAll([i \in 1..Len(t.val) |-> AllPairs(t.val[i])])
    ELSE AllPairs(t)

\* C16: on a structural Bedrock-format trace the value of the first pair
\* named sql_query whose value holds select, with, insert, update or delete
\* (in any case) is returned, with backslash-n and backslash-t replaced by
\* newline and tab and the surrounding whitespace trimmed; the pairs named
\* sql_query without such a keyword are skipped.
C16_FirstSqlQueryPair ==
    (fpc = "searched" /\ IsBedrockTrace(trace[1])) =>
        LET qualifying == SelectSeq(BedrockPairs(trace[1]), Qualifies) IN
        /\ qualifying # <<>> =>
               /\ sql[1].kind = "return"
               /\ sql[1].value # None
               /\ LET value == Get(qualifying[1], Chars("value")).val IN
                  IF value = SqlStatement THEN sql[1].value[1] = Chars("x SELECT 1; y")
                  ELSE IF value = EscapedSql
                       THEN sql[1].value[1] = Chars("SELECT\n*\tFROM t")
                       ELSE IF value = WithSql THEN sql[1].value[1] = Chars("WITH c SELECT 2;z")
                            ELSE sql[1].value[1] = Chars("selection")

\* a pair named sql_query without keyword was skipped, and the escaped value
\* of the next pair returned
C16_Witness ==
    /\ fpc = "searched"
    /\ trace[1] = Bedrock(<<>>,
                          PyList(<<InvocationOf(<<Pair(Chars("sql_query"), PyStr(NoSqlText)),
                                                  Pair(Chars("sql_query"), PyStr(EscapedSql))>>)>>),
                          <<>>)
    /\ sql[1] = Return(Some(Chars("SELECT\n*\tFROM t")))

\* C17: extract_sql_query_from_trace returns None for every trace structure,
\* empty or absent trace data included, in which no string holds a SQL
\* keyword.
C17_NoKeywordNull ==
    (fpc = "searched" /\ \A t \in AllStrings(trace[1]) : ~HasSqlKeyword(t))
        => sql[1] = Return(None)

\* C21: an invocation that fails with an error naming invalid credentials,
\* denied access or a resource that was not found is the last invocation of
\* its call, whatever else the error text holds.
C21_UnrecoverableNotRetried ==
    \A i \in 1..Len(invocations) :
        (Failed(i) /\ (IsCredentialError(invocations[i].outcome[1])
                           \/ IsNotFoundError(invocations[i].outcome[1]))) =>
            (i = Len(invocations) /\ pc # "loop")

\* a user turn is appended to the history
UserTurnAppended ==
    /\ Len(messages') = Len(messages) + 1
    /\ messages'[Len(messages')].role = "user"

\* main enters send_message
AppCallEntered == caller' = "app" /\ pc' = "loop" /\ invocations' = <<>>

\* a call of send_message is entered
CallEntered == pc' = "loop" /\ invocations' = <<>>

\* the invocations a call with max_retries >= 0 has made
InvocationsBounded ==
    (caller # "none" /\ max_retries >= 0) =>
        /\ Len(invocations) <= max_retries + 1
        /\ pc = "loop" => Len(invocations) <= max_retries
        /\ pc = "returned" => (Len(invocations) >= 1 /\ result # NoResult)

RECURSIVE SumSeq(_)
SumSeq(ns) == IF ns = <<>> THEN 0 ELSE Head(ns) + SumSeq(Tail(ns))

\* C22: in a call with max_retries = N >= 0 the wait before retry k is
\* 2^(k-1) seconds; every wait follows a failed invocation and is followed by
\* the next invocation, so the call has not waited after the invocation it
\* returns from, and a call whose N + 1 invocations failed has waited
\* 1 + 2 + ... + 2^(N-1) seconds.
C22_BackoffSchedule ==
    (caller # "none" /\ max_retries >= 0) =>
        /\ \A k \in 1..Len(sleeps) : sleeps[k] = 2 ^ (k - 1) /\ Failed(k)
        /\ pc = "loop" => Len(sleeps) = Len(invocations)
        /\ pc = "returned" => Len(sleeps) = Len(invocations) - 1
        /\ (pc = "returned" /\ Len(invocations) = max_retries + 1
                /\ Failed(Len(invocations))) =>
               SumSeq(sleeps) = SumSeq([k \in 1..max_retries |-> 2 ^ (k - 1)])

C22_Witness ==
    /\ pc = "returned"
    /\ max_retries = 3
    /\ Len(invocations) = 4
    /\ Failed(4)
    /\ sleeps = <<1, 2, 4>>

\* the invocations before the last one failed with retryable errors
EarlierFailedRetryable ==
    \A i \in 1..(Len(invocations) - 1) :
        Failed(i) /\ RetryableText(invocations[i].outcome[1])

\* C28: when the first k invocations of a call (0 <= k <= max_retries) fail
\* with retryable errors and invocation k + 1 succeeds, the call returns at
\* once a success result whose metadata.attempt is k + 1.
C28_SuccessAfterRetries ==
    /\ \A i \in 1..Len(invocations) : ~Failed(i) => i = Len(invocations)
    /\ (Len(invocations) >= 1 /\ ~Failed(Len(invocations)) /\ EarlierFailedRetryable) =>
           /\ pc = "returned"
           /\ result[1].status = "success"
           /\ result[1].metadata.attempt = Len(invocations)
           /\ Len(invocations) <= max_retries + 1

C28_Witness ==
    /\ pc = "returned"
    /\ max_retries = 2
    /\ Len(invocations) = 3
    /\ invocations[1].outcome = Some(ErrTimeout)
    /\ invocations[2].outcome = Some(ErrConnection)
    /\ ~Failed(3)
    /\ result[1].metadata.attempt = 3

\* main has finished handling a request that failed: send_message returned
\* a failure result, or an exception was raised
FailureHandled ==
    /\ caller = "app"
    /\ pc' = "idle"
    /\ pc = "raised" \/ (pc = "returned" /\ result[1].status = "error")

FailureText == IF pc = "raised" THEN exc[1].text ELSE result[1].error

HasWord(t, word) == Contains(Lower(t), Chars(word))

ExpectedGuidance(t) ==
    IF HasWord(t, "timeout") \/ HasWord(t, "read timed out") THEN "timeout"
    ELSE IF HasWord(t, "connection") THEN "connection"
    ELSE "generic"

\* the guidance the user has after the step: the st.error main emitted, or
\* the generic error text when the step appended it as the assistant turn
GuidanceShown ==
    IF guidance' # "none" THEN guidance'
    ELSE IF Len(messages') > Len(messages)
                /\ StartsWith(messages'[Len(messages')].content, ErrorPrefix)
         THEN "generic"
         ELSE "none"

\* C24: when main has handled a failed request, the guidance the user has
\* is the one the failure text selects: timeout, connection or generic, for
\* a failure result of send_message as for an exception.
C24_GuidanceByFailureText ==
    [][FailureHandled => GuidanceShown = ExpectedGuidance(FailureText)]_vars

\* the other steps of clean_response_text leave t alone: it has no run of
\* blank lines to collapse and no whitespace at its ends
OtherStepsIdle(t) == t # <<>> /\ SubBlankLines(t) = t /\ Strip(t) = t

\* apart from whitespace the line holds '|' and '-' only, and one at least
BarsAndDashesOnly(line) ==
    /\ \A i \in 1..Len(line) : line[i] \in {"|", "-"} \/ IsSpace(line[i])
    /\ \E i \in 1..Len(line) : line[i] \in {"|", "-"}

Framed(line) ==
    /\ StartsWith(line, <<"|">>)
    /\ EndsWith(line, <<"|">>)
    /\ \A i \in 1..Len(line) : ~IsSpace(line[i])

\* C25: clean_response_text turns every line made of '|', '-' and whitespace
\* into a line that starts and ends with '|' and holds no whitespace, and
\* leaves the other lines as they are.
C25_SeparatorLinesFramed ==
    (fpc = "cleaned" /\ OtherStepsIdle(text)) =>
        LET ins == Split(text, NL)
            outs == Split(cleaned, NL)
        IN  /\ Len(outs) = Len(ins)
            /\ \A i \in 1..Len(ins) :
                   IF BarsAndDashesOnly(ins[i]) THEN Framed(outs[i]) ELSE outs[i] = ins[i]

\* the value in effect for a setting: the one of the config file when there
\* is a config file, the one of the environment when there is none, and the
\* default when the value is not given at all
InEffect(name, default) ==
    LET given == IF environ.config # None THEN environ.config[1][name] ELSE environ.env[name]
    IN  IF given = None THEN default ELSE given[1]

\* C27: a connection is attempted only with a non-empty agent identifier, a
\* non-empty alias identifier and either both halves of the key pair or a
\* profile, with the values of the config file when there is one, and only
\* while no client is connected.
C27_AutoConnect ==
    /\ [](connect_args # None =>
              /\ InEffect("BEDROCK_AGENT_ID", <<>>) # <<>>
              /\ InEffect("BEDROCK_AGENT_ALIAS_ID", Chars("TSTALIASID")) # <<>>
              /\ \/ /\ InEffect("AWS_ACCESS_KEY_ID", <<>>) # <<>>
                     /\ InEffect("AWS_SECRET_ACCESS_KEY", <<>>) # <<>>
                 \/ InEffect("AWS_PROFILE", <<>>) # <<>>
              /\ connect_args[1].agent_id = InEffect("BEDROCK_AGENT_ID", <<>>)
              /\ connect_args[1].agent_alias_id
                     = InEffect("BEDROCK_AGENT_ALIAS_ID", Chars("TSTALIASID"))
              /\ connect_args[1].aws_access_key_id = InEffect("AWS_ACCESS_KEY_ID", <<>>)
              /\ connect_args[1].aws_secret_access_key
                     = InEffect("AWS_SECRET_ACCESS_KEY", <<>>)
              /\ connect_args[1].aws_profile = InEffect("AWS_PROFILE", <<>>))
    /\ [][(connect_args' # connect_args \/ agent_client' # agent_client)
              => agent_client = None]_vars

\* the attempt is made with the key pair of the config file, whose empty
\* profile is not replaced by the profile of the environment
C27_Witness ==
    /\ connect_args # None
    /\ agent_client # None
    /\ environ.config # None
    /\ environ.config[1].AWS_PROFILE = Some(<<>>)
    /\ environ.env.AWS_PROFILE = Some(Chars("e"))
    /\ environ.env.BEDROCK_AGENT_ID = Some(Chars("e"))
    /\ connect_args[1].aws_profile = <<>>
    /\ connect_args[1].agent_id = Chars("f")
    /\ connect_args[1].aws_access_key_id = Chars("f")

Smaller(a, b) == IF a < b THEN a ELSE b

\* C26: add_message_to_history leaves the last min(n + 1, 50) entries of the
\* old history of n messages followed by the new message, in their order: a
\* 51st entry removes the oldest one alone.
C26_OldestEvictedFirst ==
    [][next_stamp' # next_stamp =>
           LET new == messages'[Len(messages')]
               all == Append(messages, new)
               kept == Smaller(Len(messages) + 1, max_messages)
           IN  /\ new = [role |-> "user", content |-> LongPrompt, timestamp |-> next_stamp]
               /\ Len(messages') = kept
               /\ \A i \in 1..kept : messages'[i] = all[Len(all) - kept + i]]_vars

\* 51 messages were added to an empty history: the first is gone
C26_Witness ==
    /\ Len(messages) = max_messages
    /\ next_stamp = max_messages + 2
    /\ \A i \in 1..max_messages : messages[i].timestamp = i + 1

\* C30: the history holds at most max_messages entries, whatever methods of
\* ChatInterface were called.
C30_ChatHistoryCapped == Len(messages) <= max_messages

====
